---- MODULE Spec2Model ----
(***************************************************************************)
(* Model of src/version_restrictor.py: one HTTP fetch of release records,  *)
(* a filter on isEol, a sort, and two regular-expression guided slice      *)
(* replacements in a Terraform file.                                       *)
(*                                                                         *)
(* Text is a sequence of tokens.  A token is one character, except for     *)
(* three literals that the program only ever treats as a whole and that    *)
(* cannot overlap themselves: "contains([", "error_message" and the fixed  *)
(* head of the error message.  Offsets are therefore token offsets; the    *)
(* regular expressions are evaluated on tokens exactly as re.search        *)
(* evaluates them on characters.                                           *)
(***************************************************************************)
EXTENDS Integers, Sequences, FiniteSets, TLC

VARIABLES
    response,        \* what urlopen/json.loads will produce (environment)
    linesep,         \* os.linesep of the platform (environment)
    file_exists,     \* os.path.exists(file_path)
    disk,            \* the bytes of the file on disk
    pc,              \* position in main / update_terraform_file
    active_versions, \* result of get_active_eks_versions
    content,         \* update_terraform_file: content
    sorted_versions, \* update_terraform_file: sorted_versions
    new_content,     \* update_terraform_file: new_content
    match,           \* update_terraform_file: match.span(1)
    error_match,     \* update_terraform_file: error_match.span(2)
    log,             \* records emitted through logger, in order
    exit_code,       \* process exit status, -1 while running
    events,          \* history: external effects of this run, in order
    run,             \* history: number of the current invocation
    disk_at_start,   \* history: disk when the current invocation started
    prev_exit        \* history: exit status of the previous invocation, -1 if none

vars == <<response, linesep, file_exists, disk, pc, active_versions, content,
          sorted_versions, new_content, match, error_match, log, exit_code,
          events, run, disk_at_start, prev_exit>>

(***************************************************************************)
(* Bounds of the model.                                                    *)
(***************************************************************************)
MaxLines == 3
MaxReleases == 3
MaxVersions == 3
MaxRuns == 2

(***************************************************************************)
(* Tokens.                                                                 *)
(***************************************************************************)
CONTAINS_OPEN == "contains(["
ERROR_MESSAGE == "error_message"
MSG_HEAD == "The cluster_version must be one of: "
RBRACKET == "]"
EQUALS == "="
QUOTE == "\""
COMMA == ","
DOT == "."
SPACE == " "
LF == "\n"
CR == "\r"
PLAIN == "x"

\* Python slice s[a:b] and s[a:] on a token sequence, 0-based, half open.
Slice(s, a, b) == SubSeq(s, a + 1, b)

SliceFrom(s, a) == SubSeq(s, a + 1, Len(s))

\* sep.join(parts)
RECURSIVE Join(_, _)
Join(sep, parts) ==
    IF parts = <<>> THEN <<>>
    ELSE IF Len(parts) = 1 THEN Head(parts)
    ELSE Head(parts) \o sep \o Join(sep, Tail(parts))

Min(S) == CHOOSE m \in S : \A n \in S : m <= n

(***************************************************************************)
(* Regular expressions of update_terraform_file.                           *)
(***************************************************************************)
\* "." matches every character except the line feed (no re.DOTALL).
DotMatches(t) == t # LF

\* "\s" matches space, line feed and carriage return (tab, FF, VT not modelled).
SpaceMatches(t) == t \in {SPACE, LF, CR}

NoMatch == [found |-> FALSE, start |-> 0, end |-> 0]

\* The positions j of a "]" that closes contains\(\[(.*?)\] opened at token i.
ConditionEnds(text, i) ==
    {j \in (i + 1)..Len(text) :
        /\ text[j] = RBRACKET
        /\ \A k \in (i + 1)..(j - 1) : DotMatches(text[k])}

ConditionStarts(text) ==
    {i \in 1..Len(text) : text[i] = CONTAINS_OPEN /\ ConditionEnds(text, i) # {}}

\* re.search(r"contains\(\[(.*?)\]", content), reduced to match.span(1).
ConditionSearch(text) ==
    IF ConditionStarts(text) = {} THEN NoMatch
    ELSE LET i == Min(ConditionStarts(text))
             j == Min(ConditionEnds(text, i))
         IN [found |-> TRUE, start |-> i, end |-> j - 1]

\* First position >= k that "\s*" leaves unconsumed (Len(text)+1 at the end).
RECURSIVE SkipSpaces(_, _)
SkipSpaces(text, k) ==
    IF k <= Len(text) /\ SpaceMatches(text[k]) THEN SkipSpaces(text, k + 1) ELSE k

\* First position >= k that "(.*)" leaves unconsumed.
RECURSIVE SkipDots(_, _)
SkipDots(text, k) ==
    IF k <= Len(text) /\ DotMatches(text[k]) THEN SkipDots(text, k + 1) ELSE k

\* Position of the "=" of (error_message\s*=\s*) matched at token i, or 0.
ErrorEquals(text, i) ==
    IF text[i] # ERROR_MESSAGE THEN 0
    ELSE LET k == SkipSpaces(text, i + 1)
         IN IF k <= Len(text) /\ text[k] = EQUALS THEN k ELSE 0

ErrorStarts(text) == {i \in 1..Len(text) : ErrorEquals(text, i) # 0}

\* re.search(r"(error_message\s*=\s*)(.*)", new_content), reduced to span(2).
ErrorSearch(text) ==
    IF ErrorStarts(text) = {} THEN NoMatch
    ELSE LET i == Min(ErrorStarts(text))
             v == SkipSpaces(text, ErrorEquals(text, i) + 1)
         IN [found |-> TRUE, start |-> v - 1, end |-> SkipDots(text, v) - 1]

(***************************************************************************)
(* File I/O in text mode: open(file_path, "r"/"w", encoding="utf-8") with  *)
(* the default newline=None.                                               *)
(***************************************************************************)
\* f.read(): universal newlines, "\r\n" and a lone "\r" are read as "\n".
RECURSIVE ReadText(_)
ReadText(bytes) ==
    IF bytes = <<>> THEN <<>>
    ELSE IF Head(bytes) = CR
         THEN IF Len(bytes) >= 2 /\ bytes[2] = LF
              THEN <<LF>> \o ReadText(Tail(Tail(bytes)))
              ELSE <<LF>> \o ReadText(Tail(bytes))
         ELSE <<Head(bytes)>> \o ReadText(Tail(bytes))

\* f.write(text): every "\n" is written as os.linesep.
RECURSIVE WriteText(_, _)
WriteText(text, sep) ==
    IF text = <<>> THEN <<>>
    ELSE (IF Head(text) = LF THEN sep ELSE <<Head(text)>>) \o WriteText(Tail(text), sep)

(***************************************************************************)
(* Version identifiers are strings of these characters.                    *)
(***************************************************************************)
DigitValue ==
    ("0" :> 0) @@ ("1" :> 1) @@ ("2" :> 2) @@ ("3" :> 3) @@ ("9" :> 9)

\* ord(c), the order of str comparison.
CodePoint ==
    ("." :> 46) @@ ("0" :> 48) @@ ("1" :> 49) @@ ("2" :> 50) @@ ("3" :> 51)
    @@ ("9" :> 57) @@ ("a" :> 97)

\* s.split(".")
RECURSIVE SplitFrom(_, _)
SplitFrom(s, cur) ==
    IF s = <<>> THEN <<cur>>
    ELSE IF Head(s) = DOT THEN <<cur>> \o SplitFrom(Tail(s), <<>>)
    ELSE SplitFrom(Tail(s), Append(cur, Head(s)))

Split(s) == SplitFrom(s, <<>>)

\* int(u) raises ValueError on an empty string or a non-digit.
IntParses(u) == u # <<>> /\ \A i \in 1..Len(u) : u[i] \in DOMAIN DigitValue

RECURSIVE IntOf(_)
IntOf(u) ==
    IF u = <<>> THEN 0
    ELSE IntOf(SubSeq(u, 1, Len(u) - 1)) * 10 + DigitValue[u[Len(u)]]

\* [int(u) for u in s.split(".")]
NumericKey(s) == [i \in 1..Len(Split(s)) |-> IntOf(Split(s)[i])]

LexicalKey(s) == [i \in 1..Len(s) |-> CodePoint[s[i]]]

\* Python's "<" on two lists (or strings) of integers.
SeqLess(a, b) ==
    \/ \E i \in 1..Len(a) :
          /\ i <= Len(b)
          /\ a[i] < b[i]
          /\ \A k \in 1..(i - 1) : a[k] = b[k]
    \/ Len(a) < Len(b) /\ \A k \in 1..Len(a) : a[k] = b[k]

\* Mutant: the key function is dropped, every sort is a string sort.
KeyLessLexical(numeric, a, b) == SeqLess(LexicalKey(a), LexicalKey(b))

KeyLess(numeric, a, b) ==
    IF numeric THEN SeqLess(NumericKey(a), NumericKey(b))
    ELSE SeqLess(LexicalKey(a), LexicalKey(b))

\* sorted() is stable: x goes in front of the first element that is greater.
RECURSIVE InsertSorted(_, _, _)
InsertSorted(numeric, x, ys) ==
    IF ys = <<>> THEN <<x>>
    ELSE IF KeyLess(numeric, x, Head(ys)) THEN <<x>> \o ys
    ELSE <<Head(ys)>> \o InsertSorted(numeric, x, Tail(ys))

RECURSIVE PySorted(_, _)
PySorted(numeric, xs) ==
    IF xs = <<>> THEN <<>>
    ELSE InsertSorted(numeric, xs[Len(xs)], PySorted(numeric, SubSeq(xs, 1, Len(xs) - 1)))

\* The key function raises ValueError for some element.
KeyRaises(versions) ==
    \E i \in 1..Len(versions) :
        \E k \in 1..Len(Split(versions[i])) : ~IntParses(Split(versions[i])[k])

\* Lines 99-103: numeric sort, lexical sort when the key raises ValueError.
SortVersions(versions) ==
    IF KeyRaises(versions) THEN PySorted(FALSE, versions)
    ELSE PySorted(TRUE, versions)

\* Line 106: ", ".join([f'"{v}"' for v in sorted_versions])
NewListStr(sv) ==
    Join(<<COMMA, SPACE>>, [i \in 1..Len(sv) |-> <<QUOTE>> \o sv[i] \o <<QUOTE>>])

\* Lines 129-131.
NewErrorMsgVal(sv) ==
    <<QUOTE, MSG_HEAD>> \o Join(<<COMMA, SPACE>>, sv) \o <<DOT, QUOTE>>

\* Line 120 and lines 133-135: slice replacement.
Replace(text, span, new) ==
    Slice(text, 0, span.start) \o new \o SliceFrom(text, span.end)

(***************************************************************************)
(* get_active_eks_versions.  A response is                                 *)
(*   net      "error" when urlopen raises URLError (this includes every    *)
(*            HTTP status urlopen itself turns into HTTPError), else "ok"  *)
(*   status   the HTTP status of a response that urlopen returned          *)
(*   body     "malformed" when json.loads raises JSONDecodeError           *)
(*   shape    top-level shape of the decoded JSON value                    *)
(*   releases the array of release records, for the two known shapes       *)
(* A release record is [has_name, name, isEol]; isEol is the JSON value of *)
(* the field, or "absent".                                                 *)
(***************************************************************************)
IsEolValues == {"false", "true", "null", "0", "absent"}

Shapes ==
    {"list",                \* [ ... ]
     "nested",              \* {"result": {"releases": [ ... ]}}
     "dict_no_result",      \* {"other": ...}
     "result_no_releases",  \* {"result": {}}
     "result_number",       \* {"result": 5}: "releases" in 5 raises TypeError, as
                            \* does the test or the subscript for any other
                            \* "result" that is not an object
     "scalar"}              \* 5, "text", null

LogRecord(level, msg) == [level |-> level, msg |-> msg]

\* Mutant: "not release.get('isEol')" in place of "is False".
IsActiveFalsy(release) == release.isEol \in {"false", "0", "null", "absent"}

\* Line 68: release.get("isEol") is False
IsActive(release) == release.isEol = "false"

\* Lines 65-69: the loop.  It raises KeyError at the first active record
\* that has no "name".
RECURSIVE FilterReleases(_)
FilterReleases(releases) ==
    IF releases = <<>> THEN [raised |-> FALSE, names |-> <<>>]
    ELSE IF ~IsActive(Head(releases)) THEN FilterReleases(Tail(releases))
    ELSE IF ~Head(releases).has_name THEN [raised |-> TRUE, names |-> <<>>]
    ELSE LET rest == FilterReleases(Tail(releases))
         IN [raised |-> rest.raised,
             names |-> IF rest.raised THEN <<>> ELSE <<Head(releases).name>> \o rest.names]

\* What the call at line 162 does: "return" a list, "raise" an exception
\* that main catches at line 169, or "exit" through sys.exit(1) at line 63.
GetActiveEksVersions(resp) ==
    LET start == <<LogRecord("INFO", "Fetching EKS versions")>>
        failed == Append(start, LogRecord("ERROR", "Failed to fetch versions from API"))
    IN IF resp.net = "error" \/ resp.status # 200 \/ resp.body = "malformed"
       THEN [how |-> "raise", versions |-> <<>>, log |-> failed]
       ELSE IF resp.shape \in {"dict_no_result", "result_no_releases", "scalar"}
       THEN [how |-> "exit", versions |-> <<>>,
             log |-> Append(start, LogRecord("ERROR", "Unexpected API response structure"))]
       ELSE IF resp.shape = "result_number"
       THEN [how |-> "raise", versions |-> <<>>, log |-> start]
       ELSE LET f == FilterReleases(resp.releases)
            IN IF f.raised THEN [how |-> "raise", versions |-> <<>>, log |-> start]
               ELSE [how |-> "return", versions |-> f.names,
                     log |-> start
                         \o (IF f.names = <<>>
                             THEN <<LogRecord("WARNING", "No active EKS versions found")>>
                             ELSE <<>>)
                         \o <<LogRecord("INFO", "Found active versions")>>]

(***************************************************************************)
(* The process: main and update_terraform_file, one action per step.       *)
(***************************************************************************)
Exit(code, records) ==
    /\ pc' = "done"
    /\ exit_code' = code
    /\ log' = log \o records

\* Line 162: the call of get_active_eks_versions, and lines 169-171 when
\* it raises.
Fetch ==
    /\ pc = "main"
    /\ events' = Append(events, "fetch")
    /\ LET r == GetActiveEksVersions(response)
       IN CASE r.how = "return" ->
                 /\ pc' = "fetched"
                 /\ active_versions' = r.versions
                 /\ log' = log \o r.log
                 /\ UNCHANGED exit_code
            [] r.how = "exit" ->
                 /\ Exit(1, r.log)
                 /\ UNCHANGED active_versions
            [] r.how = "raise" ->
                 /\ Exit(1, Append(r.log, LogRecord("ERROR", "Script execution failed")))
                 /\ UNCHANGED active_versions
    /\ UNCHANGED <<response, linesep, file_exists, disk, content, sorted_versions,
                   new_content, match, error_match, run, disk_at_start, prev_exit>>

\* Mutant: the emptiness test of line 163 is missing.
CheckVersionsUnguarded ==
    /\ pc = "fetched"
    /\ pc' = "exists"
    /\ UNCHANGED <<response, linesep, file_exists, disk, active_versions, content,
                   sorted_versions, new_content, match, error_match, log, exit_code,
                   events, run, disk_at_start, prev_exit>>

\* Lines 163-167.
CheckVersions ==
    /\ pc = "fetched"
    /\ IF active_versions # <<>>
       THEN pc' = "exists" /\ UNCHANGED <<log, exit_code>>
       ELSE Exit(1, <<LogRecord("ERROR", "No active versions retrieved")>>)
    /\ UNCHANGED <<response, linesep, file_exists, disk, active_versions, content,
                   sorted_versions, new_content, match, error_match, events, run,
                   disk_at_start, prev_exit>>

\* Lines 90-92.
CheckExists ==
    /\ pc = "exists"
    /\ IF file_exists
       THEN pc' = "read" /\ UNCHANGED <<log, exit_code>>
       ELSE Exit(1, <<LogRecord("ERROR", "File not found")>>)
    /\ UNCHANGED <<response, linesep, file_exists, disk, active_versions, content,
                   sorted_versions, new_content, match, error_match, events, run,
                   disk_at_start, prev_exit>>

\* Lines 95-96.
Read ==
    /\ pc = "read"
    /\ pc' = "sort"
    /\ content' = ReadText(disk)
    /\ events' = Append(events, "read")
    /\ UNCHANGED <<response, linesep, file_exists, disk, active_versions,
                   sorted_versions, new_content, match, error_match, log, exit_code,
                   run, disk_at_start, prev_exit>>

\* Lines 95-96 raising (IOError, or UnicodeDecodeError), lines 145-150.
ReadFails ==
    /\ pc = "read"
    /\ events' = Append(events, "read_failed")
    /\ Exit(1, <<LogRecord("ERROR", "File I/O error")>>)
    /\ UNCHANGED <<response, linesep, file_exists, disk, active_versions, content,
                   sorted_versions, new_content, match, error_match, run,
                   disk_at_start, prev_exit>>

\* Lines 99-103.
Sort ==
    /\ pc = "sort"
    /\ pc' = "condition"
    /\ sorted_versions' = SortVersions(active_versions)
    /\ log' = log \o (IF KeyRaises(active_versions)
                      THEN <<LogRecord("WARNING", "Could not sort versions numerically")>>
                      ELSE <<>>)
    /\ UNCHANGED <<response, linesep, file_exists, disk, active_versions, content,
                   new_content, match, error_match, exit_code, events, run,
                   disk_at_start, prev_exit>>

\* Mutant: a missing pattern is logged but not fatal, the text goes on
\* to the write unchanged.
ReplaceListNotFatal ==
    /\ pc = "condition"
    /\ match' = ConditionSearch(content)
    /\ pc' = "error_message"
    /\ IF match'.found
       THEN /\ new_content' = Replace(content, match', NewListStr(sorted_versions))
            /\ UNCHANGED log
       ELSE /\ new_content' = content
            /\ log' = Append(log, LogRecord("ERROR", "Could not find 'contains([...])'"))
    /\ UNCHANGED <<response, linesep, file_exists, disk, active_versions, content,
                   sorted_versions, error_match, exit_code, events, run, disk_at_start,
                   prev_exit>>

\* Lines 106-120.
ReplaceList ==
    /\ pc = "condition"
    /\ match' = ConditionSearch(content)
    /\ IF match'.found
       THEN /\ pc' = "error_message"
            /\ new_content' = Replace(content, match', NewListStr(sorted_versions))
            /\ UNCHANGED <<log, exit_code>>
       ELSE /\ Exit(1, <<LogRecord("ERROR", "Could not find 'contains([...])'")>>)
            /\ UNCHANGED new_content
    /\ UNCHANGED <<response, linesep, file_exists, disk, active_versions, content,
                   sorted_versions, error_match, events, run, disk_at_start, prev_exit>>

\* Mutant: a missing error_message is fatal, like a missing allow-list.
ReplaceErrorMessageFatal ==
    /\ pc = "error_message"
    /\ error_match' = ErrorSearch(new_content)
    /\ IF error_match'.found
       THEN /\ pc' = "write"
            /\ new_content' = Replace(new_content, error_match', NewErrorMsgVal(sorted_versions))
            /\ UNCHANGED <<log, exit_code>>
       ELSE /\ Exit(1, <<LogRecord("WARNING", "Could not find 'error_message'")>>)
            /\ UNCHANGED new_content
    /\ UNCHANGED <<response, linesep, file_exists, disk, active_versions, content,
                   sorted_versions, match, events, run, disk_at_start, prev_exit>>

\* Lines 125-137.
ReplaceErrorMessage ==
    /\ pc = "error_message"
    /\ pc' = "write"
    /\ error_match' = ErrorSearch(new_content)
    /\ IF error_match'.found
       THEN /\ new_content' = Replace(new_content, error_match', NewErrorMsgVal(sorted_versions))
            /\ UNCHANGED log
       ELSE /\ log' = Append(log, LogRecord("WARNING", "Could not find 'error_message'"))
            /\ UNCHANGED new_content
    /\ UNCHANGED <<response, linesep, file_exists, disk, active_versions, content,
                   sorted_versions, match, exit_code, events, run, disk_at_start,
                   prev_exit>>

\* Lines 140-143, and the return to main, which falls off its end.
Write ==
    /\ pc = "write"
    /\ disk' = WriteText(new_content, linesep)
    /\ events' = Append(events, "write")
    /\ Exit(0, <<LogRecord("INFO", "Successfully updated")>>)
    /\ UNCHANGED <<response, linesep, file_exists, active_versions, content,
                   sorted_versions, new_content, match, error_match, run,
                   disk_at_start, prev_exit>>

\* Mutant: the IOError of the write is logged and swallowed.
WriteFailsSwallowed ==
    /\ pc = "write"
    /\ disk' \in {disk, <<>>}
    /\ events' = Append(events, "write_failed")
    /\ Exit(0, <<LogRecord("ERROR", "File I/O error")>>)
    /\ UNCHANGED <<response, linesep, file_exists, active_versions, content,
                   sorted_versions, new_content, match, error_match, run,
                   disk_at_start, prev_exit>>

\* Lines 140-141 raising IOError, lines 145-147.  open(.., "w") either
\* fails and leaves the file, or has truncated it before the failure.
WriteFails ==
    /\ pc = "write"
    /\ disk' \in {disk, <<>>}
    /\ events' = Append(events, "write_failed")
    /\ Exit(1, <<LogRecord("ERROR", "File I/O error")>>)
    /\ UNCHANGED <<response, linesep, file_exists, active_versions, content,
                   sorted_versions, new_content, match, error_match, run,
                   disk_at_start, prev_exit>>

\* The program is invoked again, on the same feed and the same path.
Rerun ==
    /\ pc = "done"
    /\ run < MaxRuns
    /\ pc' = "main"
    /\ run' = run + 1
    /\ prev_exit' = exit_code
    /\ disk_at_start' = disk
    /\ exit_code' = -1
    /\ log' = <<>>
    /\ events' = <<>>
    /\ active_versions' = <<>>
    /\ content' = <<>>
    /\ sorted_versions' = <<>>
    /\ new_content' = <<>>
    /\ match' = NoMatch
    /\ error_match' = NoMatch
    /\ UNCHANGED <<response, linesep, file_exists, disk>>

(***************************************************************************)
(* Inputs.                                                                 *)
(***************************************************************************)
SeqsUpTo(S, n) == UNION {[1..k -> S] : k \in 1..n}

\* Lines of a variables.tf, as they bear on the two regular expressions.
Lines ==
    {<<PLAIN>>,                                          \* anything else
     <<CONTAINS_OPEN, PLAIN, RBRACKET, PLAIN>>,          \* contains(["1.27"], var.v)
     <<CONTAINS_OPEN>>,                                  \* contains([   (list continues)
     <<RBRACKET>>,                                       \* ], var.v)
     <<ERROR_MESSAGE, SPACE, EQUALS, SPACE, PLAIN>>,     \* error_message = "..."
     <<ERROR_MESSAGE, EQUALS>>,                          \* error_message =
     <<ERROR_MESSAGE, EQUALS, CONTAINS_OPEN, RBRACKET>>} \* both on one line

LineEndings == {<<LF>>, <<CR, LF>>}

\* The files the program is run on: up to MaxLines lines, in either
\* line-ending convention.
Documents ==
    {Join(eol, ls) : eol \in LineEndings, ls \in SeqsUpTo(Lines, MaxLines)}

V_1_9 == <<"1", ".", "9">>

V_1_29 == <<"1", ".", "2", "9">>

V_1_30 == <<"1", ".", "3", "0">>

Release(name, isEol) == [has_name |-> TRUE, name |-> name, isEol |-> isEol]

Nameless(isEol) == [has_name |-> FALSE, name |-> <<>>, isEol |-> isEol]

JsonResponse(shape, releases) ==
    [net |-> "ok", status |-> 200, body |-> "json", shape |-> shape, releases |-> releases]

\* The feeds the whole pipeline is run on.
PipelineResponses ==
    {[net |-> "error", status |-> 0, body |-> "json", shape |-> "list", releases |-> <<>>],
     [net |-> "ok", status |-> 204, body |-> "json", shape |-> "list", releases |-> <<>>],
     [net |-> "ok", status |-> 200, body |-> "malformed", shape |-> "list", releases |-> <<>>],
     JsonResponse("scalar", <<>>),
     JsonResponse("dict_no_result", <<>>),
     JsonResponse("result_no_releases", <<>>),
     JsonResponse("result_number", <<>>),
     JsonResponse("list", <<Release(V_1_29, "true"), Release(V_1_30, "absent")>>),
     JsonResponse("list", <<Release(V_1_30, "false"), Release(V_1_9, "false"),
                            Release(V_1_29, "false")>>),
     JsonResponse("nested", <<Release(V_1_29, "true"), Release(V_1_30, "false")>>)}

Locals ==
    /\ active_versions = <<>>
    /\ content = <<>>
    /\ sorted_versions = <<>>
    /\ new_content = <<>>
    /\ match = NoMatch
    /\ error_match = NoMatch
    /\ log = <<>>
    /\ exit_code = -1
    /\ events = <<>>
    /\ run = 1
    /\ prev_exit = -1

Init ==
    /\ response \in PipelineResponses
    /\ linesep \in LineEndings
    /\ \/ file_exists = TRUE /\ disk \in Documents
       \/ file_exists = FALSE /\ disk = <<>>
    /\ disk_at_start = disk
    /\ pc = "main"
    /\ Locals

Next ==
    \/ Fetch
    \/ CheckVersions
    \/ CheckExists
    \/ Read
    \/ ReadFails
    \/ Sort
    \/ ReplaceList
    \/ ReplaceErrorMessage
    \/ Write
    \/ WriteFails
    \/ Rerun

Spec == Init /\ [][Next]_vars

(***************************************************************************)
(* get_active_eks_versions alone, on every feed of up to MaxReleases       *)
(* records.                                                                *)
(***************************************************************************)
Releases ==
    {Release(n, e) : n \in {V_1_29, V_1_30}, e \in IsEolValues}
    \cup {Nameless(e) : e \in {"false", "true"}}

FetchResponses ==
    {[net |-> n, status |-> st, body |-> b, shape |-> sh, releases |-> <<>>] :
        n \in {"ok", "error"}, st \in {200, 204}, b \in {"json", "malformed"},
        sh \in Shapes}
    \cup {JsonResponse(sh, rs) :
            sh \in {"list", "nested"}, rs \in SeqsUpTo(Releases, MaxReleases)}

InitFetch ==
    /\ response \in FetchResponses
    /\ linesep = <<LF>>
    /\ file_exists = TRUE
    /\ disk = <<PLAIN>>
    /\ disk_at_start = disk
    /\ pc = "main"
    /\ Locals

SpecFetch == InitFetch /\ [][Fetch]_vars

(***************************************************************************)
(* The sort step alone, on every list of up to MaxVersions identifiers.    *)
(***************************************************************************)
SortNames ==
    {V_1_9, V_1_29, V_1_30,
     <<"1", ".", "1", "0">>,      \* 1.10
     <<"1", ".", "0", "9">>,      \* 1.09
     <<"2">>,                     \* 2
     <<"1", ".", "3", "a">>,      \* 1.3a
     <<"1", ".">>}                \* "1." has an empty component

InitSort ==
    /\ response = JsonResponse("list", <<>>)
    /\ linesep = <<LF>>
    /\ file_exists = TRUE
    /\ disk = <<CONTAINS_OPEN, RBRACKET>>
    /\ disk_at_start = disk
    /\ pc = "sort"
    /\ active_versions \in SeqsUpTo(SortNames, MaxVersions)
    /\ content = disk
    /\ sorted_versions = <<>>
    /\ new_content = <<>>
    /\ match = NoMatch
    /\ error_match = NoMatch
    /\ log = <<>>
    /\ exit_code = -1
    /\ events = <<"fetch", "read">>
    /\ run = 1
    /\ prev_exit = -1

SpecSort == InitSort /\ [][Sort]_vars

(***************************************************************************)
(* Vocabulary of the claims.                                               *)
(***************************************************************************)
Range(f) == {f[i] : i \in DOMAIN f}

Count(f, x) == Cardinality({i \in DOMAIN f : f[i] = x})

Logged(level, msg) == LogRecord(level, msg) \in Range(log)

\* The feed is one of the two documented shapes and every record has a name.
WellFormed(resp) ==
    /\ resp.net = "ok" /\ resp.status = 200 /\ resp.body = "json"
    /\ resp.shape \in {"list", "nested"}
    /\ \A i \in 1..Len(resp.releases) : resp.releases[i].has_name

\* Positions of the records whose isEol is the boolean false.
FalseIndexes(rs) == {i \in 1..Len(rs) : rs[i].isEol = "false"}

\* Some "contains([" is followed by a "]" on the same line.
HasAllowList(text) ==
    \E i \in 1..Len(text), j \in 1..Len(text) :
        /\ i < j
        /\ text[i] = CONTAINS_OPEN
        /\ text[j] = RBRACKET
        /\ \A k \in (i + 1)..(j - 1) : text[k] # LF

\* Some "error_message" is followed by "=", with only whitespace between.
HasErrorAssignment(text) ==
    \E i \in 1..Len(text), k \in 1..Len(text) :
        /\ i < k
        /\ text[i] = ERROR_MESSAGE
        /\ text[k] = EQUALS
        /\ \A m \in (i + 1)..(k - 1) : text[m] \in {SPACE, LF, CR}

IoFailed == "read_failed" \in Range(events) \/ "write_failed" \in Range(events)

WasRead == "read" \in Range(events)

(***************************************************************************)
(* C3: for every well-formed feed, flat or nested, the fetch returns       *)
(* exactly the names of the records whose isEol is the boolean false, in   *)
(* feed order, duplicates kept.                                            *)
(***************************************************************************)
C3_FilterExact ==
    (WellFormed(response) /\ pc # "main") =>
        LET rs == response.releases
            idx == FalseIndexes(rs)
        IN /\ pc = "fetched"
           /\ Len(active_versions) = Cardinality(idx)
           /\ \A i \in idx :
                 active_versions[Cardinality({j \in idx : j <= i})] = rs[i].name

C3_Witness ==
    /\ pc = "fetched"
    /\ WellFormed(response)
    /\ response.shape = "nested"
    /\ Len(response.releases) = 3
    /\ response.releases[2].isEol = "0"
    /\ active_versions = <<V_1_30, V_1_30>>

(***************************************************************************)
(* C7: the sorted list is a permutation of the input; it ascends under     *)
(* component-wise integer comparison when every component parses, and      *)
(* under plain string comparison, with a warning and no failure, when      *)
(* some component does not.                                                *)
(***************************************************************************)
AllComponentsParse(vs) ==
    \A i \in 1..Len(vs) : \A k \in 1..Len(Split(vs[i])) : IntParses(Split(vs[i])[k])

C7_SortOrder ==
    pc = "condition" =>
        /\ \A v \in Range(active_versions) \cup Range(sorted_versions) :
              Count(sorted_versions, v) = Count(active_versions, v)
        /\ IF AllComponentsParse(active_versions)
           THEN /\ \A i, j \in 1..Len(sorted_versions) :
                      i < j => ~SeqLess(NumericKey(sorted_versions[j]),
                                        NumericKey(sorted_versions[i]))
                /\ ~Logged("WARNING", "Could not sort versions numerically")
           ELSE /\ \A i, j \in 1..Len(sorted_versions) :
                      i < j => ~SeqLess(LexicalKey(sorted_versions[j]),
                                        LexicalKey(sorted_versions[i]))
                /\ Logged("WARNING", "Could not sort versions numerically")
        /\ active_versions = <<V_1_30, V_1_9, V_1_29>>
              => sorted_versions = <<V_1_9, V_1_29, V_1_30>>
        /\ active_versions = <<<<"1", ".", "1", "0">>, V_1_9>>
              => sorted_versions = <<V_1_9, <<"1", ".", "1", "0">>>>
        /\ active_versions = <<V_1_9, <<"1", ".", "1", "0">>, <<"1", ".", "3", "a">>>>
              => sorted_versions = <<<<"1", ".", "1", "0">>, <<"1", ".", "3", "a">>, V_1_9>>

C7_Witness ==
    /\ pc = "condition"
    /\ active_versions = <<V_1_30, V_1_9, V_1_29>>
    /\ sorted_versions = <<V_1_9, V_1_29, V_1_30>>

(***************************************************************************)
(* C4: a run that does not reach the write leaves the file as it was; a    *)
(* document with no contains([...] pattern is never written and the        *)
(* process ends with a non-zero status.                                    *)
(***************************************************************************)
NoWriteAttempt == "write" \notin Range(events) /\ "write_failed" \notin Range(events)

C4_NoWriteOnFatal ==
    /\ NoWriteAttempt => disk = disk_at_start
    /\ (pc = "done" /\ exit_code # 0 /\ ~IoFailed) => NoWriteAttempt
    /\ (pc = "done" /\ WasRead /\ ~HasAllowList(content)) =>
           /\ exit_code = 1
           /\ NoWriteAttempt
           /\ disk = disk_at_start
           /\ Logged("ERROR", "Could not find 'contains([...])'")

C4_Witness ==
    /\ pc = "done"
    /\ WasRead
    /\ ~HasAllowList(content)
    /\ CONTAINS_OPEN \in Range(content)
    /\ exit_code = 1
    /\ disk = disk_at_start

(***************************************************************************)
(* C5: when the fetch succeeds and no record is active, main logs an error *)
(* and ends non-zero without entering update_terraform_file: the file is   *)
(* neither read nor written.                                               *)
(***************************************************************************)
EmptyFeed(resp) ==
    /\ resp.net = "ok" /\ resp.status = 200 /\ resp.body = "json"
    /\ resp.shape \in {"list", "nested"}
    /\ FalseIndexes(resp.releases) = {}

C5_EmptyAborts ==
    EmptyFeed(response) =>
        /\ pc \in {"main", "fetched", "done"}
        /\ Range(events) \subseteq {"fetch"}
        /\ disk = disk_at_start
        /\ content = <<>>
        /\ pc = "done" =>
              /\ exit_code = 1
              /\ Logged("ERROR", "No active versions retrieved")

C5_Witness ==
    /\ pc = "done"
    /\ EmptyFeed(response)
    /\ exit_code = 1
    /\ file_exists
    /\ HasAllowList(ReadText(disk))

(***************************************************************************)
(* C6: when the text read has the allow-list pattern and no error_message  *)
(* assignment, and no I/O error occurs, the run warns, writes the text     *)
(* with only the allow-list inner span replaced, and ends with status 0.   *)
(***************************************************************************)
FirstOpen(text) ==
    Min({i \in 1..Len(text) :
            /\ text[i] = CONTAINS_OPEN
            /\ \E j \in (i + 1)..Len(text) :
                  text[j] = RBRACKET /\ \A k \in (i + 1)..(j - 1) : text[k] # LF})

FirstClose(text, i) == Min({j \in (i + 1)..Len(text) : text[j] = RBRACKET})

C6_PartialUpdate ==
    (/\ pc = "done"
     /\ WasRead
     /\ HasAllowList(content)
     /\ ~HasErrorAssignment(content)
     /\ "write_failed" \notin Range(events)) =>
        LET i == FirstOpen(content)
            j == FirstClose(content, i)
            expected == SubSeq(content, 1, i) \o NewListStr(sorted_versions)
                            \o SubSeq(content, j, Len(content))
        IN /\ exit_code = 0
           /\ events = <<"fetch", "read", "write">>
           /\ Logged("WARNING", "Could not find 'error_message'")
           /\ new_content = expected
           /\ ReadText(disk) = expected

C6_Witness ==
    /\ pc = "done"
    /\ exit_code = 0
    /\ HasAllowList(content)
    /\ ~HasErrorAssignment(content)
    /\ Logged("WARNING", "Could not find 'error_message'")
    /\ ReadText(disk) # content

(***************************************************************************)
(* C10: a run fetches, then reads, then writes at most once; it ends with  *)
(* status 0 only after the write completed, and with a non-zero status on  *)
(* a fetch failure, an unknown top-level shape (before any filtering), an  *)
(* empty version set, a missing file, a missing allow-list pattern and a   *)
(* read or write I/O error.                                                *)
(***************************************************************************)
FetchFailure(resp) == resp.net = "error" \/ resp.status # 200 \/ resp.body = "malformed"

UnknownShape(resp) == ~FetchFailure(resp) /\ resp.shape \notin {"list", "nested"}

C10_PipelineOrder ==
    /\ events \in {<<>>, <<"fetch">>, <<"fetch", "read">>, <<"fetch", "read_failed">>,
                   <<"fetch", "read", "write">>, <<"fetch", "read", "write_failed">>}
    /\ pc # "done" => exit_code = -1
    /\ pc = "done" => exit_code \in {0, 1}
    /\ exit_code = 0 => pc = "done" /\ events = <<"fetch", "read", "write">>
    /\ pc = "done" =>
          /\ FetchFailure(response) => exit_code = 1 /\ events = <<"fetch">>
          /\ UnknownShape(response) =>
                /\ exit_code = 1
                /\ events = <<"fetch">>
                /\ ~Logged("INFO", "Found active versions")
          /\ EmptyFeed(response) => exit_code = 1
          /\ (~file_exists) => exit_code = 1 /\ Range(events) \subseteq {"fetch"}
          /\ (WasRead /\ ~HasAllowList(content)) => exit_code = 1
          /\ IoFailed => exit_code = 1

C10_Witness ==
    /\ pc = "done"
    /\ run = 2
    /\ prev_exit = 0
    /\ exit_code = 1
    /\ events = <<"fetch", "read", "write_failed">>

(***************************************************************************)
(* C1 as stated: after a completed write the bytes of the file differ from *)
(* the bytes before the run only inside the two replaced regions.  P, M    *)
(* and S are the original bytes before, between and after the regions.     *)
(***************************************************************************)
\* Number of bytes that f.read() turns into the first n characters.
RECURSIVE ByteOffset(_, _)
ByteOffset(bytes, n) ==
    IF n = 0 THEN 0
    ELSE IF Head(bytes) = CR /\ Len(bytes) >= 2 /\ bytes[2] = LF
         THEN 2 + ByteOffset(Tail(Tail(bytes)), n - 1)
         ELSE 1 + ByteOffset(Tail(bytes), n - 1)

OriginalBytes(a, b) ==
    SubSeq(disk_at_start, ByteOffset(disk_at_start, a) + 1, ByteOffset(disk_at_start, b))

C1_FrameBytes ==
    (pc = "done" /\ "write" \in Range(events)) =>
        LET list == NewListStr(sorted_versions)
            msg == NewErrorMsgVal(sorted_versions)
            n == Len(content)
            d == Len(list) - (match.end - match.start)
        IN IF ~error_match.found
           THEN disk = OriginalBytes(0, match.start) \o list \o OriginalBytes(match.end, n)
           ELSE IF error_match.end <= match.start
           THEN disk = OriginalBytes(0, error_match.start) \o msg
                           \o OriginalBytes(error_match.end, match.start) \o list
                           \o OriginalBytes(match.end, n)
           ELSE IF error_match.start >= match.start + Len(list)
           THEN disk = OriginalBytes(0, match.start) \o list
                           \o OriginalBytes(match.end, error_match.start - d) \o msg
                           \o OriginalBytes(error_match.end - d, n)
           ELSE disk = OriginalBytes(0, error_match.start) \o msg
                           \o OriginalBytes(error_match.end - d, n)

(***************************************************************************)
(* C2 as stated: a second run after a completed first run, on the same     *)
(* feed, leaves the file with the content the first run gave it.           *)
(***************************************************************************)
C2_Idempotent ==
    (pc = "done" /\ run >= 2 /\ prev_exit = 0 /\ ~IoFailed) => disk = disk_at_start

(***************************************************************************)
(* C8 as stated: whenever "contains([" is followed somewhere later by "]", *)
(* the region is the span between the first "contains([" and the first     *)
(* "]" after it, and the pattern is reported missing only when there is no *)
(* such occurrence.                                                        *)
(***************************************************************************)
OpenThenClose(text) ==
    \E i \in 1..Len(text), j \in 1..Len(text) :
        i < j /\ text[i] = CONTAINS_OPEN /\ text[j] = RBRACKET

C8_FirstSpan ==
    (WasRead /\ pc \in {"error_message", "write", "done"} /\ OpenThenClose(content)) =>
        LET i == Min({k \in 1..Len(content) : content[k] = CONTAINS_OPEN})
            j == FirstClose(content, i)
        IN /\ match.found
           /\ match.start = i
           /\ match.end = j - 1

(***************************************************************************)
(* C9 as stated: the replaced value of the first error_message assignment  *)
(* runs from just after "=" to the end of that same line and touches no    *)
(* other line.                                                             *)
(***************************************************************************)
C9_SameLineValue ==
    (pc \in {"write", "done"} /\ error_match.found) =>
        LET text == Replace(content, match, NewListStr(sorted_versions))
            i == Min({k \in 1..Len(text) :
                        /\ text[k] = ERROR_MESSAGE
                        /\ \E q \in (k + 1)..Len(text) :
                              /\ text[q] = EQUALS
                              /\ \A m \in (k + 1)..(q - 1) : text[m] \in {SPACE, LF, CR}})
            eq == Min({q \in (i + 1)..Len(text) : text[q] = EQUALS})
            eol == Min({q \in (eq + 1)..(Len(text) + 1) : q = Len(text) + 1 \/ text[q] = LF})
        IN /\ eq <= error_match.start
           /\ error_match.start <= error_match.end
           /\ error_match.end = eol - 1

====
